---- MODULE Spec2Model ----
(***************************************************************************)
(* Model of the folder inspection and folder snapshot services of the      *)
(* Nebula client API (app/services/folder_inspection.py,                   *)
(* app/services/folder_snapshot.py) and of the two HTTP handlers in        *)
(* app/main.py that call them.                                             *)
(*                                                                         *)
(* Strings are sequences of code points, so that str.lower(),              *)
(* str.startswith("."), str.isalnum() and the ordering of strings are      *)
(* computed as Python computes them.  A path is a sequence of names.  The  *)
(* filesystem is a function from the paths that exist to their nodes.      *)
(* An Optional[int] is <<>> (None) or <<n>>.  modified_at is left out of    *)
(* the entries: nothing in the services reads it back.  Requests are       *)
(* served one after another (Spec).                                        *)
(***************************************************************************)
EXTENDS Integers, Sequences, FiniteSets, TLC

\* ------------------------------------------------------------------ bounds
\* page sizes requested range over None and -1..MaxPageSize
MaxPageSize == 3
\* number of requests served in one behaviour
MaxCalls == 1
\* number of keyword requests received in one behaviour
MaxKwCalls == 2

\* ------------------------------------------------------------- characters
Dot == 46
Hyphen == 45
Underscore == 95
Digit0 == 48
Space == 32
Bang == 33
Quest == 63
Nul == 0

\* str.isalnum() on one character (ASCII range of the model's alphabet)
isalnum(ch) == (ch \in 48..57) \/ (ch \in 65..90) \/ (ch \in 97..122)

\* str.lower() on one character
lower_ch(ch) == IF ch \in 65..90 THEN ch + 32 ELSE ch

\* str.lower()
lower(s) == [i \in 1..Len(s) |-> lower_ch(s[i])]

\* name.startswith(".")
startswith_dot(name) == Len(name) >= 1 /\ name[1] = Dot

\* Python's s <= t on strings: lexicographic by code point
str_le(s, t) ==
    LET n == IF Len(s) < Len(t) THEN Len(s) ELSE Len(t)
        diff == {i \in 1..n : s[i] # t[i]}
    IN  IF diff = {} THEN Len(s) <= Len(t)
        ELSE LET i == CHOOSE k \in diff : \A m \in diff : k <= m
             IN  s[i] < t[i]

str_lt(s, t) == str_le(s, t) /\ s # t

\* ------------------------------------------------------------------ names
n_a == <<97>>
n_A == <<65>>
n_b == <<98>>
n_C == <<67>>
n_c == <<99>>
n_v == <<118>>
n_l == <<108>>
n_zz == <<122, 122>>
n_h == <<Dot, 104>>
n_f == <<Dot, 102>>
n_td == <<116, Dot, 100>>
n_snap == <<115, 110, 97, 112>>
n_ts == <<116, Space, 100>>

\* ------------------------------------------------------------- filesystem
Node(kind, size, mode) == [kind |-> kind, size |-> size, mode |-> mode, data |-> <<>>]

Dir == Node("dir", 64, "rwx")
File(size) == Node("file", size, "rwx")

parent(p) == SubSeq(p, 1, Len(p) - 1)
basename(p) == IF p = <<>> THEN <<>> ELSE p[Len(p)]

children(f, p) == {q \in DOMAIN f : Len(q) = Len(p) + 1 /\ parent(q) = p}

\* a component can be looked up when its parent directory grants search (x)
searchable(f, p) == f[p].kind = "dir" /\ f[p].mode = "rwx"
\* a directory can be listed when it grants read (r)
listable(f, p) == f[p].kind = "dir" /\ f[p].mode \in {"rwx", "r--"}
\* an entry can be created in a directory that grants write and search
writable(f, p) == f[p].kind = "dir" /\ f[p].mode = "rwx"

\* the error of os.stat(p), "" when it succeeds; p is a listed child
stat_error(f, p) ==
    IF ~searchable(f, parent(p)) THEN "PermissionError"
    ELSE IF p \notin DOMAIN f \/ f[p].kind = "dangling" THEN "FileNotFoundError"
    ELSE ""

\* Path.is_dir(): False on any error
is_dir(f, p) == stat_error(f, p) = "" /\ f[p].kind = "dir"

\* sorted(names, key=lambda name: name.lower()): a stable insertion sort
RECURSIVE insert_by_lower(_, _)
insert_by_lower(x, s) ==
    IF s = <<>> THEN <<x>>
    ELSE IF str_le(lower(s[1]), lower(x)) THEN <<s[1]>> \o insert_by_lower(x, Tail(s))
    ELSE <<x>> \o s

RECURSIVE sorted_by_lower(_)
sorted_by_lower(s) ==
    IF s = <<>> THEN <<>>
    ELSE insert_by_lower(s[Len(s)], sorted_by_lower(SubSeq(s, 1, Len(s) - 1)))

\* The order in which the operating system lists a directory is arbitrary;
\* the model lets it be ascending or descending by code point.
ScanOrders == {"asc", "desc"}

RECURSIVE seq_of_names(_, _)
seq_of_names(S, lo) ==
    IF S = {} THEN <<>>
    ELSE LET x == CHOOSE y \in S : \A z \in S :
                      IF lo = "asc" THEN str_le(y, z) ELSE str_le(z, y)
         IN  <<x>> \o seq_of_names(S \ {x}, lo)

\* os.scandir(p) / Path.iterdir(): the names of the children of p
scandir(f, p, lo) == seq_of_names({basename(q) : q \in children(f, p)}, lo)

\* ------------------------------------------------------------- exceptions
NoExc == [type |-> "", msg |-> ""]
DirectoryInspectionError(msg) == [type |-> "DirectoryInspectionError", msg |-> msg]
OSErrorOf(type) == [type |-> type, msg |-> ""]

\* ------------------------------------------------------ folder_inspection
\* Path(raw_path).resolve(strict=True): the error of the first component
\* that cannot be looked up, "" when the whole path resolves
RECURSIVE resolve_error(_, _, _)
resolve_error(f, raw, i) ==
    IF i > Len(raw) THEN ""
    ELSE LET p == SubSeq(raw, 1, i)
         IN  IF f[parent(p)].kind # "dir" THEN "NotADirectoryError"
             ELSE IF stat_error(f, p) # "" THEN stat_error(f, p)
             ELSE resolve_error(f, raw, i + 1)

\* the exception _normalize_directory raises, NoExc when it returns raw_path
_normalize_directory(f, raw) ==
    LET err == resolve_error(f, raw, 1)
    IN  IF err = "FileNotFoundError" THEN DirectoryInspectionError("path_not_found")
        ELSE IF err # "" THEN OSErrorOf(err)
        ELSE IF f[raw].kind # "dir" THEN DirectoryInspectionError("not_a_directory")
        ELSE NoExc

resolve_directory(f, raw) == _normalize_directory(f, raw)

\* DirectoryEntry.from_path, for an entry whose stat succeeds
DirectoryEntry_from_path(f, p) ==
    [name |-> basename(p),
     path |-> p,
     is_directory |-> is_dir(f, p),
     size_bytes |-> IF is_dir(f, p) THEN 0 ELSE f[p].size]

\* the sorted listing with the hidden names kept
visible_sorted_all(f, directory, lo) == sorted_by_lower(scandir(f, directory, lo))

\* the sorted listing that _iter_directory_entries walks, hidden names dropped
visible_sorted(f, directory, lo) ==
    LET visible(name) == ~startswith_dot(name)
    IN  SelectSeq(sorted_by_lower(scandir(f, directory, lo)), visible)

\* _iter_directory_entries consumed to its end: [exc, entries]
_iter_directory_entries(f, directory, lo) ==
    IF ~listable(f, directory)
    THEN [exc |-> DirectoryInspectionError("dir_permission"), entries |-> <<>>]
    ELSE LET names == visible_sorted(f, directory, lo)
             bad == {i \in 1..Len(names) : stat_error(f, Append(directory, names[i])) # ""}
         IN  IF bad = {}
             THEN [exc |-> NoExc,
                   entries |-> [i \in 1..Len(names) |->
                                   DirectoryEntry_from_path(f, Append(directory, names[i]))]]
             ELSE LET i == CHOOSE k \in bad : \A m \in bad : k <= m
                      err == stat_error(f, Append(directory, names[i]))
                  IN  [exc |-> IF err = "PermissionError"
                               THEN DirectoryInspectionError("dir_permission")
                               ELSE OSErrorOf(err),
                       entries |-> <<>>]

\* inspect_directory: [exc, directory, entries]
inspect_directory(f, raw, lo) ==
    LET exc == resolve_directory(f, raw)
    IN  IF exc # NoExc THEN [exc |-> exc, directory |-> <<>>, entries |-> <<>>]
        ELSE LET it == _iter_directory_entries(f, raw, lo)
             IN  [exc |-> it.exc, directory |-> raw, entries |-> it.entries]

\* -------------------------------------------------------- folder_snapshot
\* SnapshotEntry.from_path(root, path), for an entry whose stat succeeds;
\* relative_path is path.relative_to(root), kept as its sequence of segments
SnapshotEntry_from_path(f, root, path) ==
    [relative_path |-> SubSeq(path, Len(root) + 1, Len(path)),
     absolute_path |-> path,
     is_directory |-> is_dir(f, path),
     size_bytes |-> IF is_dir(f, path) THEN 0 ELSE f[path].size]

\* the exception SnapshotEntry.from_path raises for a failing stat
SnapshotEntry_error(err) ==
    IF err = "FileNotFoundError" THEN DirectoryInspectionError("entry_not_found")
    ELSE IF err = "PermissionError" THEN DirectoryInspectionError("entry_permission")
    ELSE NoExc

\* concatenation of a sequence of sequences
RECURSIVE flatten(_)
flatten(ss) == IF ss = <<>> THEN <<>> ELSE ss[1] \o flatten(Tail(ss))

\* walk_paths with hidden directories left out of the listing but still
\* descended into (dirnames not pruned in place)
RECURSIVE walk_paths_unpruned(_, _, _)
walk_paths_unpruned(f, current_path, lo) ==
    IF ~listable(f, current_path) THEN <<>>
    ELSE LET names == scandir(f, current_path, lo)
             isdir(name) == f[Append(current_path, name)].kind = "dir"
             isfile(name) == ~isdir(name)
             visible(name) == ~startswith_dot(name)
             alldirs == sorted_by_lower(SelectSeq(names, isdir))
             dirnames == SelectSeq(alldirs, visible)
             visible_files == sorted_by_lower(SelectSeq(SelectSeq(names, isfile), visible))
         IN  [i \in 1..Len(dirnames) |-> Append(current_path, dirnames[i])]
             \o [i \in 1..Len(visible_files) |-> Append(current_path, visible_files[i])]
             \o flatten([i \in 1..Len(alldirs) |->
                            walk_paths_unpruned(f, Append(current_path, alldirs[i]), lo)])

\* The paths for which _iter_snapshot_entries builds an entry, in the order
\* of the os.walk loop: os.walk ignores a directory it cannot list, the loop
\* body keeps the visible names, sorts directories and files, yields the
\* directories, then the files, and os.walk then descends into dirnames.
RECURSIVE walk_paths(_, _, _)
walk_paths(f, current_path, lo) ==
    IF ~listable(f, current_path) THEN <<>>
    ELSE LET names == scandir(f, current_path, lo)
             isdir(name) == f[Append(current_path, name)].kind = "dir"
             isfile(name) == ~isdir(name)
             visible(name) == ~startswith_dot(name)
             dirnames == sorted_by_lower(SelectSeq(SelectSeq(names, isdir), visible))
             visible_files == sorted_by_lower(SelectSeq(SelectSeq(names, isfile), visible))
         IN  [i \in 1..Len(dirnames) |-> Append(current_path, dirnames[i])]
             \o [i \in 1..Len(visible_files) |-> Append(current_path, visible_files[i])]
             \o flatten([i \in 1..Len(dirnames) |->
                            walk_paths(f, Append(current_path, dirnames[i]), lo)])

\* list(_iter_snapshot_entries(root)): [exc, entries]
_iter_snapshot_entries(f, root, lo) ==
    LET paths == walk_paths(f, root, lo)
        bad == {i \in 1..Len(paths) : stat_error(f, paths[i]) # ""}
    IN  IF bad = {}
        THEN [exc |-> NoExc,
              entries |-> [i \in 1..Len(paths) |-> SnapshotEntry_from_path(f, root, paths[i])]]
        ELSE LET i == CHOOSE k \in bad : \A m \in bad : k <= m
             IN  [exc |-> SnapshotEntry_error(stat_error(f, paths[i])), entries |-> <<>>]

\* _chunk_entries with the last, partial chunk dropped
_chunk_entries_floor(entries, page_size) ==
    IF page_size = <<>> \/ page_size[1] <= 0 THEN <<entries>>
    ELSE LET ps == page_size[1]
             n == Len(entries) \div ps
         IN  [k \in 1..n |-> SubSeq(entries, (k - 1) * ps + 1, k * ps)]

\* _chunk_entries with only None taken as "no paging"
_chunk_entries_none_only(entries, page_size) ==
    IF page_size = <<>> THEN <<entries>>
    ELSE LET ps == IF page_size[1] <= 0 THEN 1 ELSE page_size[1]
             n == (Len(entries) + ps - 1) \div ps
         IN  [k \in 1..n |->
                 SubSeq(entries, (k - 1) * ps + 1,
                        IF k * ps < Len(entries) THEN k * ps ELSE Len(entries))]

\* _chunk_entries with every chunk after the first starting one entry early
_chunk_entries_overlap(entries, page_size) ==
    IF page_size = <<>> \/ page_size[1] <= 0 THEN <<entries>>
    ELSE LET ps == page_size[1]
             n == (Len(entries) + ps - 1) \div ps
         IN  [k \in 1..n |->
                 SubSeq(entries, IF k = 1 THEN 1 ELSE (k - 1) * ps,
                        IF k * ps < Len(entries) THEN k * ps - 1 + (IF k = 1 THEN 1 ELSE 0)
                        ELSE Len(entries))]

\* _chunk_entries(entries, page_size); page_size is <<>> (None) or <<n>>
_chunk_entries(entries, page_size) ==
    IF page_size = <<>> \/ page_size[1] <= 0 THEN <<entries>>
    ELSE LET ps == page_size[1]
             n == (Len(entries) + ps - 1) \div ps
         IN  [k \in 1..n |->
                 SubSeq(entries, (k - 1) * ps + 1,
                        IF k * ps < Len(entries) THEN k * ps ELSE Len(entries))]

\* lines 93-95 of snapshot_directory: an empty chunk list becomes one
\* empty chunk
chunks_of(entries, page_size) ==
    LET cs == _chunk_entries(entries, page_size)
    IN  IF cs = <<>> THEN <<entries>> ELSE cs

\* decimal digits of n >= 0 as code points
RECURSIVE digits(_)
digits(n) == IF n < 10 THEN <<Digit0 + n>> ELSE digits(n \div 10) \o <<Digit0 + (n % 10)>>

\* format(n, "03d") and format(n, "02d")
zero_pad(n, width) ==
    LET d == digits(n)
    IN  [i \in 1..(IF Len(d) < width THEN width - Len(d) ELSE 0) |-> Digit0] \o d

\* a timestamp with the microseconds in it ("%Y%m%dT%H%M%S%fZ")
strftime_usec(t) ==
    <<50, 48, 50, 54, 48, 49, 48, 49, 84, 48, 48, 48, 48>> \o zero_pad(t.sec, 2)
        \o zero_pad(t.usec, 6) \o <<90>>

\* generated_at.strftime("%Y%m%dT%H%M%SZ"); the clock of the model stays
\* within one minute, so the date, hour and minute digits are fixed
strftime(t) ==
    <<50, 48, 50, 54, 48, 49, 48, 49, 84, 48, 48, 48, 48>> \o zero_pad(t.sec, 2) \o <<90>>

\* the safe_slug of _build_snapshot_path
safe_slug(directory) ==
    LET slug == IF basename(directory) = <<>> THEN <<114, 111, 111, 116>>
                ELSE basename(directory)
    IN  [i \in 1..Len(slug) |->
            IF isalnum(slug[i]) \/ slug[i] \in {Hyphen, Underscore} THEN slug[i]
            ELSE Underscore]

\* the suffix added to every page, also to the only one
page_suffix_always(page_index, page_count) ==
    IF page_count >= 1 THEN <<Underscore, 112>> \o zero_pad(page_index, 3) ELSE <<>>

\* the suffix of _build_snapshot_path
page_suffix(page_index, page_count) ==
    IF page_count > 1 THEN <<Underscore, 112>> \o zero_pad(page_index, 3) ELSE <<>>

_build_snapshot_path(snapshot_root, directory, t, page_index, page_count) ==
    Append(snapshot_root,
           safe_slug(directory) \o <<Underscore>> \o strftime(t)
               \o page_suffix(page_index, page_count)
               \o <<Dot, 106, 115, 111, 110>>)

\* the payload with page_count taken from the page index
snapshot_payload_index(directory, t, total_entries, page_index, page_count, page_size, es) ==
    [directory |-> directory,
     generated_at |-> t,
     page |-> page_index,
     page_count |-> page_index,
     page_size |-> page_size,
     total_entries |-> total_entries,
     entries |-> es]

\* the payload _write_snapshot_file dumps
snapshot_payload(directory, t, total_entries, page_index, page_count, page_size, es) ==
    [directory |-> directory,
     generated_at |-> t,
     page |-> page_index,
     page_count |-> page_count,
     page_size |-> page_size,
     total_entries |-> total_entries,
     entries |-> es]

\* Path.mkdir(parents=True, exist_ok=True): [err, fs]
RECURSIVE mkdir_parents(_, _)
mkdir_parents(f, p) ==
    IF p \in DOMAIN f
    THEN [err |-> IF f[p].kind = "dir" THEN "" ELSE "FileExistsError", fs |-> f]
    ELSE LET up == mkdir_parents(f, parent(p))
         IN  IF up.err # "" THEN up
             ELSE IF ~writable(up.fs, parent(p)) THEN [err |-> "PermissionError", fs |-> up.fs]
             ELSE [err |-> "", fs |-> up.fs @@ (p :> Dir)]

\* the error of output_path.open("w"), "" when the file can be opened
open_error(f, p) ==
    IF p \in DOMAIN f
    THEN IF f[p].kind = "dir" THEN "IsADirectoryError" ELSE ""
    ELSE IF ~writable(f, parent(p)) THEN "PermissionError" ELSE ""

\* the file a completed json.dump leaves at output_path
written_file(payload) ==
    [kind |-> "file", size |-> 2 + Len(payload.entries), mode |-> "rwx", data |-> <<payload>>]

\* the file a failed json.dump leaves: opened with "w", so truncated
truncated_file == [kind |-> "file", size |-> 0, mode |-> "rwx", data |-> <<>>]

put(f, p, node) == [q \in DOMAIN f \cup {p} |-> IF q = p THEN node ELSE f[q]]

\* ---------------------------------------------------------------- app/main
NoResponse == [status |-> 0, detail |-> "", body |-> <<>>]

\* the response to a request whose service call raised exc: the handlers
\* turn DirectoryInspectionError into 400, anything else is an unhandled
\* exception of the application (500)
http_error(exc) ==
    IF exc.type = "DirectoryInspectionError"
    THEN [status |-> 400, detail |-> exc.msg, body |-> <<>>]
    ELSE [status |-> 500, detail |-> "Internal Server Error", body |-> <<>>]

http_ok(body) == [status |-> 200, detail |-> "", body |-> <<body>>]

\* ------------------------------------------------------------ environment
FsBase ==
    (<<>> :> Dir) @@ (<<n_td>> :> Dir)
    @@ (<<n_td, n_a>> :> File(5)) @@ (<<n_td, n_A>> :> File(7))
    @@ (<<n_td, n_b>> :> Dir) @@ (<<n_td, n_b, n_c>> :> File(3))
    @@ (<<n_td, n_C>> :> Dir) @@ (<<n_td, n_C, n_a>> :> File(4))
    @@ (<<n_td, n_h>> :> Dir) @@ (<<n_td, n_h, n_v>> :> File(6))
    @@ (<<n_td, n_f>> :> File(2))

\* a directory whose only children are hidden
FsHiddenOnly ==
    (<<>> :> Dir) @@ (<<n_td>> :> Dir)
    @@ (<<n_td, n_h>> :> Dir) @@ (<<n_td, n_h, n_v>> :> File(6))
    @@ (<<n_td, n_f>> :> File(2))

\* a dangling symbolic link (or an entry that vanishes after the listing)
FsDangling ==
    (<<>> :> Dir) @@ (<<n_td>> :> Dir)
    @@ (<<n_td, n_a>> :> File(5))
    @@ (<<n_td, n_b>> :> Dir) @@ (<<n_td, n_b, n_c>> :> File(3))
    @@ (<<n_td, n_b, n_l>> :> Node("dangling", 0, "rwx"))

\* a subdirectory that cannot be listed
FsUnreadable == put(FsBase, <<n_td, n_b>>, Node("dir", 64, "---"))

\* a subdirectory that can be listed but not searched
FsUnsearchable == put(FsBase, <<n_td, n_C>>, Node("dir", 64, "r--"))

\* os.getenv("SNAPSHOT_DIR", "snapshots"), resolved: a directory under the
\* filesystem root, so it lies inside the tree of a snapshot of "/" and
\* outside the tree of any other snapshot
env_snapshot_dir == <<n_snap>>

\* the time of a snapshot taken before the server started
EarlierTime == [sec |-> 7, usec |-> 0]

\* a snapshot root that holds the file of an earlier snapshot of "/", made
\* when the tree was empty
FsEarlier ==
    (<<>> :> Dir) @@ (env_snapshot_dir :> Dir)
    @@ (_build_snapshot_path(env_snapshot_dir, <<>>, EarlierTime, 1, 1)
            :> written_file(snapshot_payload(<<>>, EarlierTime, 0, 1, 1, <<>>, <<>>)))

FsFamily == {FsBase, FsHiddenOnly, FsDangling, FsUnreadable, FsUnsearchable, FsEarlier}

\* paths a client sends
RawPaths == {<<>>, <<n_td>>, <<n_td, n_b>>, <<n_td, n_C>>, <<n_td, n_a>>,
             <<n_td, n_a, n_c>>, <<n_td, n_zz>>, <<n_td, n_C, n_a>>}

PageSizes == {<<>>} \cup {<<n>> : n \in -1..MaxPageSize}

\* values of datetime.now(timezone.utc)
Times == {[sec |-> 7, usec |-> 0], [sec |-> 7, usec |-> 1], [sec |-> 8, usec |-> 0]}
NoTime == [sec |-> 0, usec |-> 0]

\* ------------------------------------------------------------------ state
VARIABLES
    fs,                \* the filesystem: path -> node
    calls,             \* requests received so far
    request,           \* the request being served, or served last
    pc,                \* position in snapshot_directory, "idle" between requests
    directory,         \* snapshot_directory: directory
    entries,           \* snapshot_directory: entries
    generated_at,      \* snapshot_directory: generated_at
    chunks,            \* snapshot_directory: chunks
    snapshot_root,     \* snapshot_directory: snapshot_root
    pages,             \* snapshot_directory: pages
    raised,            \* the exception the service call raised, NoExc if none
    response,          \* the HTTP response to the request served last
    other,             \* the same, of a second worker thread while it is not running
    _KEYBERT,          \* keyword_extractor._KEYBERT: <<>> (None) or <<object>>
    _SENT_EMBED,       \* keyword_extractor._SENT_EMBED: <<>> (None) or <<object>>
    built,             \* objects constructed so far: [embed, keybert]
    kw,                \* per worker thread: position in keybert_analyze and its locals
    kw_calls,          \* keyword requests received so far
    kw_request,        \* the text of the keyword request answered last
    kw_response        \* the response to the keyword request answered last

locals == <<directory, entries, generated_at, chunks, snapshot_root, pages>>
\* what a worker thread holds of a folder request
context == [calls |-> calls, request |-> request, pc |-> pc, directory |-> directory,
            entries |-> entries, generated_at |-> generated_at, chunks |-> chunks,
            snapshot_root |-> snapshot_root, pages |-> pages, raised |-> raised,
            response |-> response]
kw_vars == <<_KEYBERT, _SENT_EMBED, built, kw, kw_calls, kw_request, kw_response>>
folder_vars == <<fs, calls, request, pc, directory, entries, generated_at,
                 chunks, snapshot_root, pages, raised, response, other>>
\* what a step of the sequential folder service leaves alone
aux_vars == <<other, kw_vars>>
vars == <<folder_vars, kw_vars>>

NoRequest == [op |-> "", path |-> <<>>, page_size |-> <<>>]

fresh_locals ==
    /\ entries' = <<>>
    /\ generated_at' = NoTime
    /\ chunks' = <<>>
    /\ snapshot_root' = <<>>
    /\ pages' = <<>>

\* a worker thread that has served nothing yet
idle_context == [calls |-> 0, request |-> NoRequest, pc |-> "idle", directory |-> <<>>,
                 entries |-> <<>>, generated_at |-> NoTime, chunks |-> <<>>,
                 snapshot_root |-> <<>>, pages |-> <<>>, raised |-> NoExc,
                 response |-> NoResponse]

Threads == {1, 2}
kw_idle == [pc |-> "idle", raw |-> <<>>, text |-> <<>>, kb |-> <<>>]

\* keyword_extractor.py lines 26-27: both globals None when the module is loaded
kw_init ==
    /\ _KEYBERT = <<>>
    /\ _SENT_EMBED = <<>>
    /\ built = [embed |-> 0, keybert |-> 0]
    /\ kw = [t \in Threads |-> kw_idle]
    /\ kw_calls = 0
    /\ kw_request = <<>>
    /\ kw_response = NoResponse

Init ==
    /\ fs \in FsFamily
    /\ calls = 0
    /\ request = NoRequest
    /\ pc = "idle"
    /\ directory = <<>>
    /\ entries = <<>>
    /\ generated_at = NoTime
    /\ chunks = <<>>
    /\ snapshot_root = <<>>
    /\ pages = <<>>
    /\ raised = NoExc
    /\ response = NoResponse
    /\ other = idle_context
    /\ kw_init

\* POST /folders/inspect
inspect_folder(raw, lo) ==
    /\ pc = "idle"
    /\ calls < MaxCalls
    /\ calls' = calls + 1
    /\ request' = [op |-> "inspect", path |-> raw, page_size |-> <<>>]
    /\ LET r == inspect_directory(fs, raw, lo)
       IN  /\ raised' = r.exc
           /\ response' = IF r.exc = NoExc
                          THEN http_ok([directory |-> r.directory, entries |-> r.entries])
                          ELSE http_error(r.exc)
    /\ directory' = <<>>
    /\ fresh_locals
    /\ UNCHANGED <<fs, pc>>
    /\ UNCHANGED aux_vars

\* snapshot_directory with the snapshot root created before the traversal
snapshot_begin_mkroot(raw, ps) ==
    /\ pc = "idle"
    /\ calls' = calls + 1
    /\ request' = [op |-> "snapshot", path |-> raw, page_size |-> ps]
    /\ fresh_locals
    /\ LET exc == resolve_directory(fs, raw)
       IN  /\ raised' = exc
           /\ IF exc = NoExc
              THEN /\ directory' = raw
                   /\ pc' = "collect"
                   /\ response' = NoResponse
                   /\ fs' = mkdir_parents(fs, env_snapshot_dir).fs
              ELSE /\ directory' = <<>>
                   /\ pc' = "idle"
                   /\ response' = http_error(exc)
                   /\ UNCHANGED fs
    /\ UNCHANGED aux_vars

\* POST /folders/snapshot, up to line 87 of snapshot_directory
snapshot_begin(raw, ps) ==
    /\ pc = "idle"
    /\ calls' = calls + 1
    /\ request' = [op |-> "snapshot", path |-> raw, page_size |-> ps]
    /\ fresh_locals
    /\ LET exc == resolve_directory(fs, raw)
       IN  /\ raised' = exc
           /\ IF exc = NoExc
              THEN /\ directory' = raw
                   /\ pc' = "collect"
                   /\ response' = NoResponse
              ELSE /\ directory' = <<>>
                   /\ pc' = "idle"
                   /\ response' = http_error(exc)
    /\ UNCHANGED fs
    /\ UNCHANGED aux_vars

\* the sequential service takes at most MaxCalls requests
snapshot_start(raw, ps) ==
    /\ calls < MaxCalls
    /\ snapshot_begin(raw, ps)

\* lines 89-95: collect the entries, take the time, chunk
snapshot_collect(lo, t) ==
    /\ pc = "collect"
    /\ LET r == _iter_snapshot_entries(fs, directory, lo)
       IN  IF r.exc = NoExc
           THEN /\ entries' = r.entries
                /\ generated_at' = t
                /\ chunks' = chunks_of(r.entries, request.page_size)
                /\ pc' = "ensure_root"
                /\ UNCHANGED <<raised, response>>
           ELSE /\ raised' = r.exc
                /\ response' = http_error(r.exc)
                /\ pc' = "idle"
                /\ UNCHANGED <<entries, generated_at, chunks>>
    /\ UNCHANGED <<fs, calls, request, directory, snapshot_root, pages>>
    /\ UNCHANGED aux_vars

\* line 97: _ensure_snapshot_root; fault is an OSError of the environment
\* (read-only or full filesystem)
snapshot_ensure_root(fault) ==
    /\ pc = "ensure_root"
    /\ LET r == mkdir_parents(fs, env_snapshot_dir)
       IN  IF fault \/ r.err # ""
           THEN /\ raised' = DirectoryInspectionError("root_uncreatable")
                /\ response' = http_error(DirectoryInspectionError("root_uncreatable"))
                /\ pc' = "idle"
                /\ UNCHANGED <<fs, snapshot_root>>
           ELSE /\ fs' = r.fs
                /\ snapshot_root' = env_snapshot_dir
                /\ pc' = IF chunks = <<>> THEN "return" ELSE "write"
                /\ UNCHANGED <<raised, response>>
    /\ UNCHANGED <<calls, request, directory, entries, generated_at,
                   chunks, pages>>
    /\ UNCHANGED aux_vars

\* snapshot_write with the OSError of a failed write swallowed: the page is
\* recorded and the loop goes on
snapshot_write_swallow(outcome) ==
    /\ pc = "write"
    /\ LET index == Len(pages) + 1
           chunk == chunks[index]
           output_path == _build_snapshot_path(snapshot_root, directory, generated_at,
                                               index, Len(chunks))
           payload == snapshot_payload(directory, generated_at, Len(entries), index,
                                       Len(chunks), request.page_size, chunk)
       IN  /\ fs' = IF outcome = "open_fails" \/ open_error(fs, output_path) # "" THEN fs
                    ELSE IF outcome = "dump_fails" THEN put(fs, output_path, truncated_file)
                    ELSE put(fs, output_path, written_file(payload))
           /\ pages' = Append(pages, [page |-> index, path |-> output_path,
                                      entry_count |-> Len(chunk)])
           /\ pc' = IF index = Len(chunks) THEN "return" ELSE "write"
           /\ UNCHANGED <<raised, response>>
    /\ UNCHANGED <<calls, request, directory, entries, generated_at, chunks, snapshot_root>>
    /\ UNCHANGED aux_vars

\* one iteration of the loop of lines 100-119: write page Len(pages) + 1;
\* outcome is what the environment lets the write do
snapshot_write(outcome) ==
    /\ pc = "write"
    /\ LET index == Len(pages) + 1
           chunk == chunks[index]
           output_path == _build_snapshot_path(snapshot_root, directory, generated_at,
                                               index, Len(chunks))
           payload == snapshot_payload(directory, generated_at, Len(entries), index,
                                       Len(chunks), request.page_size, chunk)
           failed == /\ raised' = DirectoryInspectionError("write_failed")
                     /\ response' = http_error(DirectoryInspectionError("write_failed"))
                     /\ pc' = "idle"
                     /\ UNCHANGED pages
       IN  IF outcome = "open_fails" \/ open_error(fs, output_path) # ""
           THEN failed /\ UNCHANGED fs
           ELSE IF outcome = "dump_fails"
           THEN failed /\ fs' = put(fs, output_path, truncated_file)
           ELSE /\ fs' = put(fs, output_path, written_file(payload))
                /\ pages' = Append(pages, [page |-> index, path |-> output_path,
                                           entry_count |-> Len(chunk)])
                /\ pc' = IF index = Len(chunks) THEN "return" ELSE "write"
                /\ UNCHANGED <<raised, response>>
    /\ UNCHANGED <<calls, request, directory, entries, generated_at,
                   chunks, snapshot_root>>
    /\ UNCHANGED aux_vars

\* lines 121-127 and the response of snapshot_folder
snapshot_return ==
    /\ pc = "return"
    /\ response' = http_ok([directory |-> directory,
                            generated_at |-> generated_at,
                            total_entries |-> Len(entries),
                            page_size |-> request.page_size,
                            page_count |-> Len(pages),
                            pages |-> pages])
    /\ pc' = "idle"
    /\ UNCHANGED <<fs, calls, request, locals, raised>>
    /\ UNCHANGED aux_vars

WriteOutcomes == {"ok", "open_fails", "dump_fails"}

Next ==
    \/ \E raw \in RawPaths, lo \in ScanOrders : inspect_folder(raw, lo)
    \/ \E raw \in RawPaths, ps \in PageSizes : snapshot_start(raw, ps)
    \/ \E lo \in ScanOrders, t \in Times : snapshot_collect(lo, t)
    \/ \E fault \in BOOLEAN : snapshot_ensure_root(fault)
    \/ \E outcome \in WriteOutcomes : snapshot_write(outcome)
    \/ snapshot_return

Spec == Init /\ [][Next]_vars

\* ----------------------------------------------------- sentence_splitter
\* str.strip() on a text whose only whitespace is the space
RECURSIVE lstrip(_)
lstrip(s) == IF s # <<>> /\ s[1] = Space THEN lstrip(Tail(s)) ELSE s
RECURSIVE rstrip(_)
rstrip(s) == IF s # <<>> /\ s[Len(s)] = Space THEN rstrip(SubSeq(s, 1, Len(s) - 1)) ELSE s
strip(s) == rstrip(lstrip(s))

is_ending(c) == c \in {Dot, Bang, Quest}

\* re.split(r"[.!?]+", text): the pieces between the runs of endings, the
\* empty pieces before a leading run and after a trailing run included
RECURSIVE re_split(_, _, _, _)
re_split(text, i, cur, acc) ==
    IF i > Len(text) THEN Append(acc, cur)
    ELSE IF is_ending(text[i])
    THEN IF i > 1 /\ is_ending(text[i - 1])
         THEN re_split(text, i + 1, cur, acc)
         ELSE re_split(text, i + 1, <<>>, Append(acc, cur))
    ELSE re_split(text, i + 1, Append(cur, text[i]), acc)

RECURSIVE strip_nonempty(_)
strip_nonempty(ss) ==
    IF ss = <<>> THEN <<>>
    ELSE IF strip(ss[1]) # <<>> THEN <<strip(ss[1])>> \o strip_nonempty(Tail(ss))
    ELSE strip_nonempty(Tail(ss))

split_sentences_ko(text) ==
    IF text = <<>> \/ strip(text) = <<>> THEN <<>>
    ELSE strip_nonempty(re_split(text, 1, <<>>, <<>>))

\* ----------------------------------------------------- keyword_extractor
\* text.replace("\x00", " ")
replace_nul(text) == [i \in 1..Len(text) |-> IF text[i] = Nul THEN Space ELSE text[i]]

\* the request bodies: "", " ", "a.", "a. b!", "a?!\0b", ". .", "a b"
KwTexts ==
    { <<>>, <<Space>>, <<97, Dot>>, <<97, Dot, Space, 98, Bang>>,
      <<97, Quest, Bang, Nul, 98>>, <<Dot, Space, Dot>>, <<97, Space, 98>> }

\* kb.extract_keywords(sents, (5, 10), top_n=1): one list per sentence, with
\* the best phrase of the sentence, or empty when the sentence yields no
\* candidate phrase of 5 to 10 words; hit[i] says whether sentence i has one
per_sent_of(sents, hit) ==
    [i \in 1..Len(sents) |->
        IF hit[i] THEN <<[phrase |-> sents[i], score |-> "score"]>> ELSE <<>>]

\* lines 83-85: the first item of every non-empty list
RECURSIVE flatten_first(_)
flatten_first(per_sent) ==
    IF per_sent = <<>> THEN <<>>
    ELSE IF per_sent[1] # <<>> THEN <<per_sent[1][1]>> \o flatten_first(Tail(per_sent))
    ELSE flatten_first(Tail(per_sent))

set_kw(t, pc_, raw, text, kb) ==
    kw' = [kw EXCEPT ![t] = [pc |-> pc_, raw |-> raw, text |-> text, kb |-> kb]]

\* POST /text/keywords on worker thread t (a def endpoint runs in the
\* thread pool), up to line 57 of keybert_analyze
kw_receive(t, text) ==
    /\ kw[t].pc = "idle"
    /\ kw_calls < MaxKwCalls
    /\ kw_calls' = kw_calls + 1
    /\ set_kw(t, "check", text, replace_nul(text), <<>>)
    /\ UNCHANGED <<_KEYBERT, _SENT_EMBED, built, kw_request, kw_response>>
    /\ UNCHANGED folder_vars

\* _get_models line 34: the test of the two globals
kw_check(t) ==
    /\ kw[t].pc = "check"
    /\ set_kw(t, IF _KEYBERT = <<>> \/ _SENT_EMBED = <<>> THEN "load_embed" ELSE "return",
              kw[t].raw, kw[t].text, <<>>)
    /\ UNCHANGED <<_KEYBERT, _SENT_EMBED, built, kw_calls, kw_request, kw_response>>
    /\ UNCHANGED folder_vars

\* line 38: _SENT_EMBED = SentenceTransformer(_MODEL_NAME); the load fails
\* when the model cannot be fetched, and the handler answers 500
kw_load_embed(t, ok) ==
    /\ kw[t].pc = "load_embed"
    /\ IF ok
       THEN /\ built' = [built EXCEPT !.embed = @ + 1]
            /\ _SENT_EMBED' = <<built.embed + 1>>
            /\ set_kw(t, "load_keybert", kw[t].raw, kw[t].text, <<>>)
            /\ UNCHANGED <<kw_request, kw_response>>
       ELSE /\ kw_request' = kw[t].raw
            /\ kw_response' = http_error(OSErrorOf("OSError"))
            /\ set_kw(t, "idle", <<>>, <<>>, <<>>)
            /\ UNCHANGED <<built, _SENT_EMBED>>
    /\ UNCHANGED <<_KEYBERT, kw_calls>>
    /\ UNCHANGED folder_vars

\* line 39: _KEYBERT = KeyBERT(model=_SENT_EMBED), with the global as it is now
kw_load_keybert(t) ==
    /\ kw[t].pc = "load_keybert"
    /\ built' = [built EXCEPT !.keybert = @ + 1]
    /\ _KEYBERT' = <<[id |-> built.keybert + 1, model |-> _SENT_EMBED[1]]>>
    /\ set_kw(t, "return", kw[t].raw, kw[t].text, <<>>)
    /\ UNCHANGED <<_SENT_EMBED, kw_calls, kw_request, kw_response>>
    /\ UNCHANGED folder_vars

\* line 40 and line 59: kb, _ = _get_models()
kw_return_models(t) ==
    /\ kw[t].pc = "return"
    /\ set_kw(t, "extract", kw[t].raw, kw[t].text, _KEYBERT)
    /\ UNCHANGED <<_KEYBERT, _SENT_EMBED, built, kw_calls, kw_request, kw_response>>
    /\ UNCHANGED folder_vars

KwOutcomes == {"raises", "none", "some"}

\* lines 62-87 and the response of extract_keywords; outcome is what
\* kb.extract_keywords makes of the whole text
kw_extract(t, outcome, hit) ==
    /\ kw[t].pc = "extract"
    /\ LET sents == split_sentences_ko(kw[t].text)
           per_sent == IF sents # <<>> THEN per_sent_of(sents, hit) ELSE <<>>
           keywords == IF outcome = "some" THEN <<[phrase |-> "keyword", score |-> "score"]>>
                       ELSE <<>>
       IN  /\ hit \in [1..Len(sents) -> BOOLEAN]
           /\ kw_response' = IF outcome = "raises"
                             THEN http_error([type |-> "ValueError", msg |-> "empty vocabulary"])
                             ELSE http_ok([keywords |-> keywords,
                                           key_sentences |-> flatten_first(per_sent)])
    /\ kw_request' = kw[t].raw
    /\ set_kw(t, "idle", <<>>, <<>>, <<>>)
    /\ UNCHANGED <<_KEYBERT, _SENT_EMBED, built, kw_calls>>
    /\ UNCHANGED folder_vars

\* the shapes the per-sentence results of the request bodies can take
KwHits == UNION { [1..Len(split_sentences_ko(replace_nul(text))) -> BOOLEAN] : text \in KwTexts }

\* the keyword service alone, on a process that serves no folder request
InitKw ==
    /\ fs = FsBase
    /\ calls = 0
    /\ request = NoRequest
    /\ pc = "idle"
    /\ directory = <<>>
    /\ entries = <<>>
    /\ generated_at = NoTime
    /\ chunks = <<>>
    /\ snapshot_root = <<>>
    /\ pages = <<>>
    /\ raised = NoExc
    /\ response = NoResponse
    /\ other = idle_context
    /\ kw_init

NextKw ==
    \/ \E t \in Threads, text \in KwTexts : kw_receive(t, text)
    \/ \E t \in Threads : kw_check(t)
    \/ \E t \in Threads, ok \in BOOLEAN : kw_load_embed(t, ok)
    \/ \E t \in Threads : kw_load_keybert(t)
    \/ \E t \in Threads : kw_return_models(t)
    \/ \E t \in Threads, outcome \in KwOutcomes :
           \E hit \in KwHits : kw_extract(t, outcome, hit)

SpecKw == InitKw /\ [][NextKw]_vars

\* --------------------------------------------- two snapshot calls at once
\* snapshot_folder is an async def endpoint, but nothing in
\* snapshot_directory keeps a second worker (a second process of the
\* server, or a caller of the service from another thread) from running it
\* on the same snapshot root: the running call is in the variables of the
\* sequential model, the call that waits is in other

\* the directories "t.d" and "t d" have the safe_slug "t_d"
FsConc ==
    (<<>> :> Dir) @@ (<<n_td>> :> Dir)
    @@ (<<n_td, n_a>> :> File(1)) @@ (<<n_td, n_b>> :> File(2))
    @@ (<<n_ts>> :> Dir) @@ (<<n_ts, n_c>> :> File(3))

ConcPaths == {<<n_td>>, <<n_ts>>}
ConcPageSizes == {<<>>, <<1>>}

InitConc ==
    /\ fs = FsConc
    /\ calls = 0
    /\ request = NoRequest
    /\ pc = "idle"
    /\ directory = <<>>
    /\ entries = <<>>
    /\ generated_at = NoTime
    /\ chunks = <<>>
    /\ snapshot_root = <<>>
    /\ pages = <<>>
    /\ raised = NoExc
    /\ response = NoResponse
    /\ other = idle_context
    /\ kw_init

\* each of the two workers serves one snapshot request
conc_start(raw, ps) ==
    /\ calls = 0
    /\ snapshot_begin(raw, ps)

\* the scheduler lets the other worker run
switch ==
    /\ other' = context
    /\ calls' = other.calls
    /\ request' = other.request
    /\ pc' = other.pc
    /\ directory' = other.directory
    /\ entries' = other.entries
    /\ generated_at' = other.generated_at
    /\ chunks' = other.chunks
    /\ snapshot_root' = other.snapshot_root
    /\ pages' = other.pages
    /\ raised' = other.raised
    /\ response' = other.response
    /\ UNCHANGED fs
    /\ UNCHANGED kw_vars

NextConc ==
    \/ \E raw \in ConcPaths, ps \in ConcPageSizes : conc_start(raw, ps)
    \/ \E lo \in ScanOrders, t \in Times : snapshot_collect(lo, t)
    \/ \E fault \in BOOLEAN : snapshot_ensure_root(fault)
    \/ \E outcome \in WriteOutcomes : snapshot_write(outcome)
    \/ snapshot_return
    \/ switch

SpecConc == InitConc /\ [][NextConc]_vars

\* ----------------------------------------------------------------- claims
\* snapshot_directory has returned a result and the handler has answered
Returned == pc = "idle" /\ request.op = "snapshot" /\ response.status = 200
result == response.body[1]

RECURSIVE sum_entry_count(_)
sum_entry_count(ps) == IF ps = <<>> THEN 0 ELSE ps[1].entry_count + sum_entry_count(Tail(ps))

\* the content of the file of page i of the result
page_file(i) == fs[result.pages[i].path].data[1]

\* C1: for a page_size P > 0 the entry counts of the pages of a result add
\* up to total_entries, and the number of pages is ceil(total_entries / P),
\* except that an empty snapshot has exactly one page, with 0 entries.
C1_PageCount ==
    (Returned /\ request.page_size # <<>> /\ request.page_size[1] > 0) =>
        LET P == request.page_size[1]
            total == result.total_entries
            n == result.page_count
        IN  /\ n = Len(result.pages)
            /\ sum_entry_count(result.pages) = total
            /\ n >= 1
            /\ IF total = 0
               THEN n = 1 /\ result.pages[1].entry_count = 0
               ELSE n * P >= total /\ (n - 1) * P < total

\* a snapshot of 7 entries with page_size 3 has returned its 3 pages
C1_Witness ==
    /\ Returned
    /\ request.page_size = <<3>>
    /\ result.total_entries = 7
    /\ result.page_count = 3

\* an empty snapshot with a positive page_size has returned
C1_WitnessEmpty ==
    /\ Returned
    /\ request.page_size = <<2>>
    /\ result.total_entries = 0

\* C2: when page_size is None or not positive, a result has exactly one
\* page, that page holds all collected entries, and the page_size of the
\* result is the requested value.
C2_SinglePage ==
    (Returned /\ (request.page_size = <<>> \/ request.page_size[1] <= 0)) =>
        /\ result.page_count = 1
        /\ Len(result.pages) = 1
        /\ result.pages[1].entry_count = result.total_entries
        /\ result.total_entries = Len(entries)
        /\ page_file(1).entries = entries
        /\ result.page_size = request.page_size

\* a snapshot of several entries with page_size 0 has returned
C2_Witness ==
    /\ Returned
    /\ request.page_size = <<0>>
    /\ result.total_entries >= 2

\* the traversal has completed and nothing has been written since
Collected == pc = "ensure_root"

is_under(q, root) == Len(q) > Len(root) /\ SubSeq(q, 1, Len(root)) = root

\* the entries a walk from root can reach: below root, no segment below root
\* hidden, and every directory from root down to the parent can be listed
\* (the contents of a directory the process may not list cannot be reached)
reachable(f, root) ==
    {q \in DOMAIN f :
        /\ is_under(q, root)
        /\ \A k \in (Len(root) + 1)..Len(q) : ~startswith_dot(q[k])
        /\ \A k \in Len(root)..(Len(q) - 1) : listable(f, SubSeq(q, 1, k))}

no_hidden_segment(e) == \A k \in 1..Len(e.relative_path) : ~startswith_dot(e.relative_path[k])

pos(q) == CHOOSE i \in 1..Len(entries) : entries[i].absolute_path = q

collected_paths == {entries[i].absolute_path : i \in 1..Len(entries)}

\* the order of the collected sequence: among siblings directories come
\* before files and, within each kind, a name that is smaller ignoring case
\* comes first; a directory precedes its contents; the contents of an
\* earlier sibling precede those of a later one; the entries of a directory
\* precede everything deeper in that directory
C4_Order ==
    \A x \in collected_paths : \A y \in collected_paths :
        /\ (parent(x) = parent(y) /\ fs[x].kind = "dir" /\ fs[y].kind # "dir")
              => pos(x) < pos(y)
        /\ (parent(x) = parent(y) /\ (fs[x].kind = "dir") = (fs[y].kind = "dir")
                /\ str_lt(lower(basename(x)), lower(basename(y))))
              => pos(x) < pos(y)
        /\ (is_under(y, x)) => pos(x) < pos(y)
        /\ (parent(x) = parent(y) /\ pos(x) < pos(y)) =>
              \A u \in collected_paths : \A w \in collected_paths :
                  (is_under(u, x) /\ is_under(w, y)) => pos(u) < pos(w)
        /\ (Len(y) > Len(x) /\ is_under(y, parent(x))) => pos(x) < pos(y)

\* the collected sequence does not depend on the order in which the
\* operating system lists a directory
C4_Deterministic ==
    \A lo \in ScanOrders : entries = _iter_snapshot_entries(fs, directory, lo).entries

\* C4: the collected entry sequence is deterministic and ordered: per
\* directory the subdirectories in case-insensitive name order, then the
\* files in case-insensitive name order, then the subdirectories' contents
\* depth-first in the same order, each directory before its contents.
C4_DeterministicOrder == Collected => (C4_Order /\ C4_Deterministic)

\* the order alone, which the traversal does keep
C4_OrderOnly == Collected => C4_Order

\* C5: for page_size P > 0 the pages of a result are consecutive slices of
\* the collected sequence: the entries of the page files, concatenated in
\* page order, are the collected sequence; a page holds at most P entries
\* and every page but the last exactly P.
C5_ConsecutiveSlices ==
    (Returned /\ request.page_size # <<>> /\ request.page_size[1] > 0) =>
        LET P == request.page_size[1]
            N == Len(result.pages)
        IN  /\ flatten([i \in 1..N |-> page_file(i).entries]) = entries
            /\ \A i \in 1..N :
                  /\ Len(page_file(i).entries) <= P
                  /\ i < N => Len(page_file(i).entries) = P

\* 6 entries have been written as 3 pages of 2
C5_Witness ==
    /\ Returned
    /\ request.page_size = <<2>>
    /\ Len(entries) = 6
    /\ Len(result.pages) = 3

\* C6: the pages of a result are numbered 1..N in order, and the file of
\* page i records page i, page_count N, the total of the result, the
\* requested page_size, the generated_at of the result, and as many
\* entries as the entry_count of the page.
C6_PageFiles ==
    Returned =>
        LET N == Len(result.pages)
        IN  /\ result.page_count = N
            /\ result.total_entries = sum_entry_count(result.pages)
            /\ \A i \in 1..N :
                  /\ result.pages[i].page = i
                  /\ result.pages[i].path \in DOMAIN fs
                  /\ fs[result.pages[i].path].data # <<>>
                  /\ page_file(i).page = i
                  /\ page_file(i).page_count = N
                  /\ page_file(i).total_entries = result.total_entries
                  /\ page_file(i).page_size = request.page_size
                  /\ page_file(i).generated_at = result.generated_at
                  /\ \A j \in 1..N : page_file(j).generated_at = page_file(i).generated_at
                  /\ Len(page_file(i).entries) = result.pages[i].entry_count

\* a result of at least 3 pages whose last page is shorter than the first
C6_Witness ==
    /\ Returned
    /\ Len(result.pages) >= 3
    /\ result.pages[Len(result.pages)].entry_count < result.pages[1].entry_count

\* inspect_directory has returned a listing and the handler has answered
Inspected == pc = "idle" /\ request.op = "inspect" /\ response.status = 200
listing == response.body[1].entries

\* C7 (result): a listing holds exactly the immediate children of the
\* directory whose names do not start with a dot, each once, in ascending
\* order of the lower-cased name, with size 0 for a directory and the byte
\* length for anything else.
C7_Listing ==
    Inspected =>
        LET D == request.path
        IN  /\ response.body[1].directory = D
            /\ {listing[i].path : i \in 1..Len(listing)}
                  = {q \in children(fs, D) : ~startswith_dot(basename(q))}
            /\ \A i \in 1..Len(listing) : \A j \in 1..Len(listing) :
                  /\ (i # j) => listing[i].path # listing[j].path
                  /\ (i < j) => str_le(lower(listing[i].name), lower(listing[j].name))
            /\ \A i \in 1..Len(listing) :
                  /\ listing[i].name = basename(listing[i].path)
                  /\ Len(listing[i].path) = Len(D) + 1
                  /\ listing[i].is_directory = (fs[listing[i].path].kind = "dir")
                  /\ listing[i].size_bytes
                        = IF fs[listing[i].path].kind = "dir" THEN 0
                          ELSE fs[listing[i].path].size

\* C7 (frame): a step that serves an inspect request leaves the filesystem
\* as it was
C7_ReadOnly == (request'.op = "inspect" /\ calls' # calls) => fs' = fs

\* C7: inspect_directory returns exactly the visible immediate children,
\* sorted by lower-cased name, with size 0 for directories, and changes
\* nothing on the filesystem.
C7_Inspect == [](C7_Listing) /\ [][C7_ReadOnly]_vars

\* t.d, with two hidden children and deeper descendants, has been listed:
\* two directories and two files
C7_Witness ==
    /\ Inspected
    /\ request.path = <<n_td>>
    /\ <<n_td, n_h>> \in DOMAIN fs
    /\ <<n_td, n_b, n_c>> \in DOMAIN fs
    /\ Len(listing) = 4

\* no exception other than DirectoryInspectionError leaves a service call,
\* so no response is a 500
C8_NoRawError ==
    /\ raised.type \in {"", "DirectoryInspectionError"}
    /\ response.status \in {0, 200, 400}

\* a traversal that completed met no directory it could not list
C8_NoSilentFailure ==
    Collected =>
        \A q \in DOMAIN fs :
            (fs[q].kind = "dir" /\ (q = directory \/ q \in collected_paths)) => listable(fs, q)

\* C8: every filesystem failure during inspect_directory or
\* snapshot_directory is raised as DirectoryInspectionError and answered
\* with 400; no raw OS error escapes and no failure passes unreported.
C8_DomainErrorsOnly == C8_NoRawError /\ C8_NoSilentFailure

allowed_in_slug(ch) == isalnum(ch) \/ ch \in {Hyphen, Underscore}

\* the parts of the file name of page i of the result
slug_len == IF basename(directory) = <<>> THEN 4 ELSE Len(basename(directory))
file_name(i) == basename(result.pages[i].path)
name_slug(i) == SubSeq(file_name(i), 1, slug_len)
name_timestamp(i) == SubSeq(file_name(i), slug_len + 2, slug_len + 17)
name_rest(i) == SubSeq(file_name(i), slug_len + 18, Len(file_name(i)))

dot_json == <<Dot, 106, 115, 111, 110>>

\* C9: every file name of a result is <slug>_<timestamp>[_p<index>].json;
\* the _p suffix is there iff the result has more than one page, and holds
\* the 1-based page number padded with zeros to 3 digits; slug and
\* timestamp are the same for all pages; the slug has only alphanumeric
\* characters, hyphens and underscores and is "root" for an empty basename.
C9_FileNames ==
    Returned =>
        LET N == Len(result.pages)
            base == basename(directory)
        IN  \A i \in 1..N :
              /\ parent(result.pages[i].path) = env_snapshot_dir
              /\ Len(file_name(i)) >= slug_len + 17 + 5
              /\ \A k \in 1..slug_len : allowed_in_slug(name_slug(i)[k])
              /\ (base = <<>>) => name_slug(i) = <<114, 111, 111, 116>>
              /\ (base # <<>>) =>
                    \A k \in 1..slug_len :
                        allowed_in_slug(base[k]) => name_slug(i)[k] = base[k]
              /\ file_name(i)[slug_len + 1] = Underscore
              /\ name_timestamp(i) = strftime(result.generated_at)
              /\ name_timestamp(i)[9] = 84 /\ name_timestamp(i)[16] = 90
              /\ name_slug(i) = name_slug(1)
              /\ name_timestamp(i) = name_timestamp(1)
              /\ (N = 1) => name_rest(i) = dot_json
              /\ (N > 1 /\ i < 1000) =>
                    /\ Len(name_rest(i)) = 10
                    /\ SubSeq(name_rest(i), 1, 2) = <<Underscore, 112>>
                    /\ \A k \in 3..5 : name_rest(i)[k] \in 48..57
                    /\ (name_rest(i)[3] - 48) * 100 + (name_rest(i)[4] - 48) * 10
                          + (name_rest(i)[5] - 48) = i
                    /\ SubSeq(name_rest(i), 6, 10) = dot_json

\* a several-page result for t.d, whose basename has to be sanitized
C9_Witness ==
    /\ Returned
    /\ directory = <<n_td>>
    /\ Len(result.pages) > 1

\* a one-page result for the filesystem root, whose basename is empty
C9_WitnessRoot ==
    /\ Returned
    /\ directory = <<>>
    /\ Len(result.pages) = 1

\* the payload and the path of page i of the call in progress
page_payload(i) ==
    snapshot_payload(directory, generated_at, Len(entries), i, Len(chunks),
                     request.page_size, chunks[i])
page_path(i) == _build_snapshot_path(snapshot_root, directory, generated_at, i, Len(chunks))

\* the write of a page has failed and ended the call
WriteFailed ==
    /\ pc = "idle"
    /\ request.op = "snapshot"
    /\ raised = DirectoryInspectionError("write_failed")

\* C10 (state): while pages are written, and after a write has failed, the
\* files of the pages written so far hold their payloads; after a failure
\* the answer is a 400 without a result.
C10_WrittenRemain ==
    /\ (pc \in {"write", "return"} \/ WriteFailed) =>
          \A i \in 1..Len(pages) :
              /\ pages[i].path = page_path(i)
              /\ page_path(i) \in DOMAIN fs
              /\ fs[page_path(i)].data = <<page_payload(i)>>
    /\ WriteFailed =>
          /\ Len(pages) < Len(chunks)
          /\ response.status = 400
          /\ response.body = <<>>

\* C10 (step): a write step either leaves the complete file of its page,
\* or ends the call with the domain error, records no page and touches no
\* file but that of its page; a step taken between calls writes nothing.
C10_FailStops ==
    /\ (pc = "write") =>
          LET k == Len(pages) + 1
          IN  \/ /\ page_path(k) \in DOMAIN fs'
                 /\ fs'[page_path(k)].data = <<page_payload(k)>>
                 /\ pc' \in {"write", "return"}
              \/ /\ pc' = "idle"
                 /\ raised' = DirectoryInspectionError("write_failed")
                 /\ response'.status = 400
                 /\ pages' = pages
                 /\ DOMAIN fs' \subseteq DOMAIN fs \cup {page_path(k)}
                 /\ \A q \in DOMAIN fs : q # page_path(k) => (q \in DOMAIN fs' /\ fs'[q] = fs[q])
    /\ (pc = "idle") => fs' = fs

\* C10: a failed write of page k fails the whole call with the domain
\* error and no result; the files of pages 1..k-1 stay as written and no
\* later page is attempted.
C10_PartialFailure == [](C10_WrittenRemain) /\ [][C10_FailStops]_vars

\* page 2 of at least 3 could not be written
C10_Witness ==
    /\ WriteFailed
    /\ Len(pages) = 1
    /\ Len(chunks) >= 3

\* a worker thread holds a handle obtained from _get_models
has_handle(t) == kw[t].kb # <<>>

\* C11: across any interleaving of keybert_analyze calls of one process the
\* embedding model and the KeyBERT wrapper are constructed at most once, and
\* every call uses that one handle, which wraps that one embedding model.
C11_LoadedOnce ==
    /\ built.embed <= 1
    /\ built.keybert <= 1
    /\ \A t, u \in Threads : (has_handle(t) /\ has_handle(u)) => kw[t].kb = kw[u].kb
    /\ (_KEYBERT # <<>> /\ _SENT_EMBED # <<>>) => _KEYBERT[1].model = _SENT_EMBED[1]

\* the sentences of a text, counted without the splitter: the maximal runs
\* of characters other than '.', '!' and '?' that hold a non-blank character
sentence_starts(text) ==
    { i \in 1..Len(text) : ~is_ending(text[i]) /\ (i = 1 \/ is_ending(text[i - 1])) }
run_end(text, i) ==
    CHOOSE j \in i..Len(text) :
        /\ \A k \in i..j : ~is_ending(text[k])
        /\ (j = Len(text) \/ is_ending(text[j + 1]))
sentence_count(text) ==
    Cardinality({ i \in sentence_starts(text) :
                    \E k \in i..run_end(text, i) : text[k] \notin {Space, Nul} })

KwAnswered == kw_response.status = 200

\* C12: key_sentences holds exactly one pair per sentence of the text, in
\* sentence order, and is empty when the text has no sentence.
C12_OnePerSentence ==
    KwAnswered =>
        LET ks == kw_response.body[1].key_sentences
            sents == split_sentences_ko(replace_nul(kw_request))
        IN  /\ Len(ks) = sentence_count(kw_request)
            /\ Len(ks) = Len(sents)
            /\ \A i \in 1..Len(ks) : ks[i].phrase = sents[i]

\* what the code does keep: the splitter yields the sentences of the text,
\* and key_sentences is a subsequence of one pair per sentence
C12_SplitterCount ==
    \A t \in Threads :
        kw[t].pc # "idle" =>
            Len(split_sentences_ko(kw[t].text)) = sentence_count(kw[t].raw)
C12_AtMostOne ==
    KwAnswered => Len(kw_response.body[1].key_sentences) <= sentence_count(kw_request)

\* the payload of page i of the call held in the context c
payload_of(c, i) ==
    snapshot_payload(c.directory, c.generated_at, Len(c.entries), i, Len(c.chunks),
                     c.request.page_size, c.chunks[i])

\* the sanitized basename of a directory: "root" for the root, else its
\* name with every character that is not alphanumeric, '-' or '_' made '_'
sanitized(d) ==
    IF basename(d) = <<>> THEN <<114, 111, 111, 116>>
    ELSE [k \in 1..Len(basename(d)) |->
            IF allowed_in_slug(basename(d)[k]) THEN basename(d)[k] ELSE Underscore]

\* page i of the running call and page j of the other call collide
collide(i, j) ==
    /\ sanitized(directory) = sanitized(other.directory)
    /\ generated_at.sec = other.generated_at.sec
    /\ \/ Len(chunks) = 1 /\ Len(other.chunks) = 1
       \/ Len(chunks) > 1 /\ Len(other.chunks) > 1 /\ i = j

\* C13: two snapshot calls on one snapshot root write a page to the same
\* path whenever their directories have the same sanitized basename, their
\* timestamps agree to the second and the page suffix is the same; the file
\* then holds the payload of the call that wrote last, whichever it was.
C13_Collision ==
    \A i \in 1..Len(pages), j \in 1..Len(other.pages) :
        collide(i, j) =>
            /\ snapshot_root = other.snapshot_root
            /\ pages[i].path = other.pages[j].path
            /\ fs[pages[i].path].data \in {<<payload_of(context, i)>>, <<payload_of(other, j)>>}

\* both calls have returned a result, and the file of a page of this result
\* holds the content the other call wrote
C13_Witness ==
    /\ Returned
    /\ other.pc = "idle" /\ other.response.status = 200
    /\ \E i \in 1..Len(result.pages), j \in 1..Len(other.pages) :
          /\ collide(i, j)
          /\ payload_of(context, i) # payload_of(other, j)
          /\ fs[result.pages[i].path].data = <<payload_of(other, j)>>

\* the paths of the files the call in progress, or the call served last,
\* has written
own_files == {pages[i].path : i \in 1..Len(pages)}

\* fs' differs from fs at most at the paths in ps
changes_only(ps) ==
    /\ DOMAIN fs \subseteq DOMAIN fs'
    /\ DOMAIN fs' \subseteq DOMAIN fs \cup ps
    /\ \A q \in DOMAIN fs : q \notin ps => fs'[q] = fs[q]

\* the steps of a call come in the order resolve, collect, create the
\* snapshot root, write page 1, 2, ..: resolving and collecting leave the
\* filesystem alone, also when they fail; creating the root adds
\* directories only; a write changes the file of the next page only; the
\* entries are those collected
C14_StepOrder ==
    /\ (pc = "idle") => (fs' = fs /\ pc' \in {"idle", "collect"} /\ pages' = <<>>)
    /\ (pc = "collect") =>
          /\ fs' = fs
          /\ pages' = <<>> /\ snapshot_root' = <<>>
          /\ \/ pc' = "ensure_root" /\ raised' = NoExc
             \/ pc' = "idle" /\ raised' # NoExc /\ response'.status = 400
    /\ (pc = "ensure_root") =>
          /\ entries' = entries /\ pages' = <<>>
          /\ \A q \in DOMAIN fs : q \in DOMAIN fs' /\ fs'[q] = fs[q]
          /\ \A q \in DOMAIN fs' \ DOMAIN fs :
                fs'[q].kind = "dir" /\ (q = env_snapshot_dir \/ is_under(env_snapshot_dir, q))
          /\ pc' \in {"idle", "write", "return"}
          /\ (pc' # "idle") => (env_snapshot_dir \in DOMAIN fs' /\ snapshot_root' = env_snapshot_dir)
    /\ (pc = "write") =>
          /\ entries' = entries
          /\ changes_only({page_path(Len(pages) + 1)})
          /\ \/ pages' = pages /\ pc' = "idle"
             \/ /\ Len(pages') = Len(pages) + 1
                /\ pages'[Len(pages')].page = Len(pages')
                /\ pages'[Len(pages')].path = page_path(Len(pages'))
                /\ pc' = IF Len(pages') = Len(chunks) THEN "return" ELSE "write"
    /\ (pc = "return") => (fs' = fs /\ entries' = entries /\ pages' = pages /\ pc' = "idle")

\* C14 as stated: the steps of a call are strictly ordered resolve, collect,
\* create root, write pages 1..N, nothing is created or written before the
\* traversal is over, a failure of the resolution or of the traversal leaves
\* the filesystem unchanged, and no entry of a snapshot is a file that the
\* same call writes.
C14_NoOwnFiles == collected_paths \cap own_files = {}
C14_AsStated == [](C14_NoOwnFiles) /\ [][C14_StepOrder]_vars

\* C14 (state): when the traversal is over the call has created and written
\* nothing, and every entry is on disk; an entry can be a file the call
\* writes later only if the snapshot root lies inside the snapshotted
\* directory, and then the entry describes the file an earlier snapshot left
\* there under the same name.
C14_EntriesPredate ==
    /\ Collected =>
          /\ pages = <<>> /\ snapshot_root = <<>>
          /\ collected_paths \subseteq DOMAIN fs
    /\ (pc \in {"write", "return"} \/ Returned) =>
          /\ ~is_under(snapshot_root, directory) => collected_paths \cap own_files = {}
          /\ \A q \in collected_paths : is_under(q, snapshot_root) => q \in DOMAIN fs

\* C14 (amended): the steps of a call are strictly ordered, nothing is
\* created or written before the traversal is over, a failed resolution or
\* traversal leaves the filesystem unchanged, and the entries are those that
\* were on disk when the traversal ended: none of them was created by this
\* call, though one can name a file this call then overwrites.
C14_Ordered == [](C14_EntriesPredate) /\ [][C14_StepOrder]_vars

\* a snapshot of "/" has returned: the snapshot root lies inside the
\* snapshotted directory, the file of an earlier snapshot is among the
\* entries, and the files written by this call are not
C14_Witness ==
    /\ Returned
    /\ is_under(snapshot_root, directory)
    /\ \E q \in collected_paths : is_under(q, snapshot_root)
    /\ Len(pages) > 1
    /\ collected_paths \cap own_files = {}
====
